---- MODULE Spec2Model ----
(***************************************************************************)
(* MythOS (src/Mythos.jsx): the announcement list of the single-page       *)
(* client, with the session (login/logout), the publish draft, the edit    *)
(* focus with its scratch draft, the delete confirmation sub-flow and the   *)
(* notifications the handlers emit.                                         *)
(*                                                                         *)
(* Text is a sequence of one-character strings, so that String.trim() and   *)
(* String.length are computed and not assumed.  Every text field of the     *)
(* model holds a string, so the (x || '') defaults of the handlers leave    *)
(* their operand as it is and are not written out.                          *)
(***************************************************************************)
EXTENDS Integers, Sequences, FiniteSets, TLC

VARIABLES
  user,              \* useState(null): the logged-in user, or NoUser
  announcements,     \* useState(storage.get('mythos_announcements', []))
  announcementData,  \* the publish draft {title, message}
  editingId,         \* id of the entry in Editing, or NoId
  editDraft,         \* the scratch draft of the entry in Editing
  confirmOpen,       \* the delete confirmation dialog is open
  pendingDelete,     \* target of the pending delete, or NoId
  toast,             \* arguments of the last pushToast call
  now,               \* Date.now() as read by the next uid()/nowISO()
  storage,           \* localStorage item 'mythos_announcements'
  storageOk,         \* localStorage.setItem succeeds (quota left, access allowed)
  search,            \* raw value of the search input
  searchDebounced,   \* value the list is filtered with
  timers,            \* values captured by the pending debounce timeouts
  sortKey,           \* 'date' | 'title' | 'author'
  sortDir,           \* 'asc' | 'desc'
  page,              \* useState(1)
  tab,               \* useState('chat'): id of the active tab
  toasts,            \* useState([]): the notifications on screen
  toastTimers,       \* ids captured by the pending removal timeouts
  msgs,              \* useState([]): the conversation
  input,             \* useState(''): the chat input
  loading,           \* useState(false): a chat request is awaited
  calls              \* executions of send suspended at an await

\* search, sort and page controls of the list
listControls == <<search, searchDebounced, timers, sortKey, sortDir, page>>

\* active tab, notification list and chat request state
session == <<tab, toasts, toastTimers, input, loading, calls>>

vars == <<user, announcements, announcementData, editingId, editDraft,
          confirmOpen, pendingDelete, toast, now, storage, storageOk,
          listControls, session, msgs>>

----------------------------------------------------------------------------
(* Bounds *)

\* number of announcements published in one run
MaxPublish == 2

\* number of toasts pushed in one run
MaxToasts == 3

\* chat messages, those still awaited included, of one conversation
MaxMsgs == 6

----------------------------------------------------------------------------
(* Program constants *)

MinTitleLen == 3
MinMessageLen == 5

----------------------------------------------------------------------------
(* Text *)

EmptyText == << >>

\* characters String.prototype.trim removes
WhiteSpace == {" "}

RECURSIVE TrimStart(_)
TrimStart(s) ==
  IF s = << >> THEN s
  ELSE IF Head(s) \in WhiteSpace THEN TrimStart(Tail(s)) ELSE s

RECURSIVE TrimEnd(_)
TrimEnd(s) ==
  IF s = << >> THEN s
  ELSE IF s[Len(s)] \in WhiteSpace THEN TrimEnd(SubSeq(s, 1, Len(s) - 1)) ELSE s

\* String.prototype.trim
Trim(s) == TrimEnd(TrimStart(s))

----------------------------------------------------------------------------
(* Values *)

\* useState(null) for the user
NoUser == [name |-> EmptyText, role |-> "none"]

\* null for editingId and pendingDelete (falsy, like null)
NoId == 0

\* a null/undefined argument of startEdit
NoAnnouncement ==
  [id |-> NoId, title |-> EmptyText, message |-> EmptyText,
   author |-> EmptyText, verified |-> FALSE, date |-> 0]

EmptyDraft == [title |-> EmptyText, message |-> EmptyText]

NoToast == [message |-> "", type |-> "none"]

\* user?.role
RoleOf(u) == IF u = NoUser THEN "undefined" ELSE u.role

\* const canManage = (user?.role) === 'admin'
canManage == RoleOf(user) = "admin"

\* if (!user) return <login screen>: the login form is all that is rendered
LoginScreen == user = NoUser

\* otherwise the shell is rendered: side bar with logout, and the tabs
Shell == user # NoUser

\* uid() returning the same value at every call
uid_Fixed == NoId + 1

\* uid(): `${Date.now()}-${random}`; Date.now() has advanced between two
\* publishes, so the time stamp alone identifies the entry
uid == now

\* nowISO()
nowISO == now

\* text of a user name inside a template string
NameText(n) ==
  IF n = <<"a", "n", "n">> THEN "ann"
  ELSE IF n = <<"b", "o">> THEN "bo" ELSE "?"

----------------------------------------------------------------------------
(* Input values offered by the user interface *)

Roles == {"student", "teacher", "admin"}

UserNames == { << >>, <<" ">>, <<" ", "a", "n", "n">> }
Passwords == { << >>, <<"p", "w">> }

\* typed into the publish form
TypedTitles == { <<" ", "a", "b", " ">>, <<" ", "a", "b", "c", " ">> }
TypedMessages == { <<" ", "h", "e", "l", "l", "o", " ">> }

\* typed into the edit inputs
EditTitles == { <<" ", "x", "y", "z">>, <<"x", " ">> }
EditMessages ==
  { <<" ", "h", "e", "y", " ", " ">>, <<"w", "o", "r", "l", "d", " ">> }

\* ids a caller can name: the ids uid() returns in one run, whether the
\* entry is in the list, is not yet published or was removed
IdSpace == 1..MaxPublish

----------------------------------------------------------------------------
(* storage: localStorage behind try/catch.  An item is the text stored     *)
(* under the key; a text that is JSON is written as the value it encodes:   *)
(* the entries hold strings and booleans only, which JSON.stringify and     *)
(* JSON.parse carry over unchanged.                                         *)

\* getItem returns null (or ''): nothing is stored under the key
AbsentItem == [kind |-> "absent", value |-> << >>]

\* getItem throws: access to localStorage is denied
UnreadableItem == [kind |-> "unreadable", value |-> << >>]

\* a stored text that is not JSON
GarbageItem == [kind |-> "garbage", value |-> << >>]

JSONStringify(value) == [kind |-> "json", value |-> value]

\* JSON.parse: the value, or a SyntaxError thrown
JSONParse(raw) ==
  IF raw.kind = "json" THEN [thrown |-> FALSE, value |-> raw.value]
  ELSE [thrown |-> TRUE, value |-> << >>]

\* storage.get returning a decoded text whatever it holds, without try/catch
storageGet_NoCatch(item, fallback) ==
  IF JSONParse(item).thrown THEN <<"SyntaxError">> ELSE JSONParse(item).value

\* storage.get(key, fallback)
storageGet(item, fallback) ==
  IF item.kind = "unreadable" THEN fallback             \* catch
  ELSE IF item.kind = "absent" THEN fallback            \* raw ? ... : fallback
  ELSE IF JSONParse(item).thrown THEN fallback          \* catch
  ELSE JSONParse(item).value

\* storage.set(key, value): the item afterwards; a throw of setItem is
\* swallowed and leaves the item as it was
storageSet(item, value) ==
  IF storageOk THEN JSONStringify(value) ELSE item

\* the persistence effect saving the list of the render before
persistAnnouncements_Previous == storage' = storageSet(storage, announcements)

\* useEffect(() => storage.set('mythos_announcements', announcements),
\*           [announcements]): runs after a render with a new list
persistAnnouncements == storage' = storageSet(storage, announcements')

----------------------------------------------------------------------------
(* pushToast(message, type = 'info') *)
pushToast(message, type) == toast' = [message |-> message, type |-> type]

----------------------------------------------------------------------------
\* useState('chat'), useState([]), useState(''), useState(false): nothing
\* is on screen or awaited
SessionInit ==
  /\ tab = "chat"
  /\ toasts = << >>
  /\ toastTimers = {}
  /\ msgs = << >>
  /\ input = << >>
  /\ loading = FALSE
  /\ calls = << >>

Init ==
  /\ user = NoUser
  /\ announcements = << >>
  /\ announcementData = EmptyDraft
  /\ editingId = NoId
  /\ editDraft = EmptyDraft
  /\ confirmOpen = FALSE
  /\ pendingDelete = NoId
  /\ toast = NoToast
  /\ now = 1
  /\ storageOk = TRUE
  /\ storage = storageSet(AbsentItem, announcements)
  /\ search = EmptyText
  /\ searchDebounced = EmptyText
  /\ timers = {EmptyText}
  /\ sortKey = "date"
  /\ sortDir = "desc"
  /\ page = 1
  /\ SessionInit

----------------------------------------------------------------------------
(* The list as displayed: filter, sort, page *)

\* a field the stored entry does not have (undefined)
Missing == <<"undefined">>

\* (x || '') for a text field
OrEmpty(x) == IF x = Missing THEN EmptyText ELSE x

UpperCase == <<"A", "B", "C", "D", "E", "F", "G", "H", "I", "J", "K", "L", "M",
               "N", "O", "P", "Q", "R", "S", "T", "U", "V", "W", "X", "Y", "Z">>
LowerCase == <<"a", "b", "c", "d", "e", "f", "g", "h", "i", "j", "k", "l", "m",
               "n", "o", "p", "q", "r", "s", "t", "u", "v", "w", "x", "y", "z">>

IndexIn(seq, c) ==
  CHOOSE found \in
    { IF \E i \in 1..Len(seq) : seq[i] = ch
      THEN CHOOSE i \in 1..Len(seq) : seq[i] = ch
      ELSE 0 : ch \in {c} } : TRUE

LowerChar(c) == IF IndexIn(UpperCase, c) = 0 THEN c ELSE LowerCase[IndexIn(UpperCase, c)]

\* String.prototype.toLowerCase
ToLowerCase(s) == [i \in 1..Len(s) |-> LowerChar(s[i])]

\* String.prototype.includes
Includes(t, q) ==
  \E i \in 0..(Len(t) - Len(q)) : SubSeq(t, i + 1, i + Len(q)) = q

\* collation rank of a character: the blank before the letters, a letter at
\* its place in the alphabet whatever its case
Rank(c) == IF c = " " THEN 0 ELSE IndexIn(LowerCase, LowerChar(c))

\* first level of the collation: letters, case left aside
RECURSIVE PrimaryCompare(_, _)
PrimaryCompare(s, t) ==
  IF s = << >> /\ t = << >> THEN 0
  ELSE IF s = << >> THEN -1
  ELSE IF t = << >> THEN 1
  ELSE IF Rank(Head(s)) < Rank(Head(t)) THEN -1
  ELSE IF Rank(Head(s)) > Rank(Head(t)) THEN 1
  ELSE PrimaryCompare(Tail(s), Tail(t))

\* last level of the collation, for texts with the same letters: at the first
\* place where the case differs the lower-case letter comes first
RECURSIVE CaseCompare(_, _)
CaseCompare(s, t) ==
  IF s = << >> \/ t = << >> THEN 0
  ELSE IF Head(s) = Head(t) THEN CaseCompare(Tail(s), Tail(t))
  ELSE IF IndexIn(LowerCase, Head(s)) # 0 THEN -1 ELSE 1

\* String.prototype.localeCompare: negative, 0 or positive
localeCompare(s, t) ==
  CHOOSE order \in
    { IF PrimaryCompare(u, v) # 0 THEN PrimaryCompare(u, v) ELSE CaseCompare(u, v) :
        u \in {s}, v \in {t} } : TRUE

\* a date field that is missing, null or '' (falsy)
MissingDate == 0

\* a date field holding a text that Date cannot parse
UnparsableDate == -1

\* a number, or NaN
Num(v) == [nan |-> FALSE, v |-> v]
NaN == [nan |-> TRUE, v |-> 0]

\* new Date(d || 0).getTime(): a valid date is written as its time stamp
getTime(d) ==
  IF d = MissingDate THEN Num(0)
  ELSE IF d = UnparsableDate THEN NaN
  ELSE Num(d)

Minus(x, y) == IF x.nan \/ y.nan THEN NaN ELSE Num(x.v - y.v)
Times(x, k) == IF x.nan THEN NaN ELSE Num(x.v * k)

\* the comparator handed to sort, with the direction left out
compare_NoDir(a, b, key, dir) ==
  IF key = "title" THEN Num(localeCompare(OrEmpty(a.title), OrEmpty(b.title)))
  ELSE IF key = "author"
  THEN Num(localeCompare(OrEmpty(a.author), OrEmpty(b.author)))
  ELSE Minus(getTime(a.date), getTime(b.date))

\* the comparator handed to sort
compare(a, b, key, dir) ==
  LET d == IF dir = "asc" THEN 1 ELSE -1
  IN IF key = "title"
     THEN Times(Num(localeCompare(OrEmpty(a.title), OrEmpty(b.title))), d)
     ELSE IF key = "author"
     THEN Times(Num(localeCompare(OrEmpty(a.author), OrEmpty(b.author))), d)
     ELSE Times(Minus(getTime(a.date), getTime(b.date)), d)

\* what Array.prototype.sort makes of a comparator result: NaN counts as 0
SortOrder(x) == IF x.nan THEN 0 ELSE x.v

\* place behind which x is inserted into the sorted prefix: the scan goes left
\* past the entries that compare greater than x
RECURSIVE InsertPlace(_, _, _, _, _)
InsertPlace(sorted, x, j, key, dir) ==
  IF j >= 1 /\ SortOrder(compare(sorted[j], x, key, dir)) > 0
  THEN InsertPlace(sorted, x, j - 1, key, dir)
  ELSE j

\* x put into the sorted prefix
Insert(sorted, x, key, dir) ==
  LET j == InsertPlace(sorted, x, Len(sorted), key, dir)
  IN SubSeq(sorted, 1, j) \o <<x>> \o SubSeq(sorted, j + 1, Len(sorted))

RECURSIVE SortFrom(_, _, _, _, _)
SortFrom(sorted, list, i, key, dir) ==
  IF i > Len(list) THEN sorted
  ELSE CHOOSE result \in
         { SortFrom(longer, list, i + 1, key, dir) :
             longer \in {Insert(sorted, list[i], key, dir)} } : TRUE

\* Array.prototype.sort(comparator): stable; written as an insertion sort,
\* which every stable sort agrees with when the comparator is a total
\* preorder.  When it is not (a NaN result), the order is engine-defined
\* for three entries and more, and this is one of the orders.
ArraySort(list, key, dir) == SortFrom(<< >>, list, 1, key, dir)

\* the filter predicate without the test of the message
Matches_NoMessage(a, q) ==
  LET t  == ToLowerCase(OrEmpty(a.title))
      au == ToLowerCase(OrEmpty(a.author))
  IN q = EmptyText \/ Includes(t, q) \/ Includes(au, q)

\* the filter predicate of filteredSorted, for q = searchDebounced trimmed
\* and in lower case
Matches(a, q) ==
  LET t  == ToLowerCase(OrEmpty(a.title))
      m  == ToLowerCase(OrEmpty(a.message))
      au == ToLowerCase(OrEmpty(a.author))
  IN q = EmptyText \/ Includes(t, q) \/ Includes(m, q) \/ Includes(au, q)

\* the body of the useMemo of filteredSorted, sorting the state array itself
filteredSortedMemo_InPlace(all, sd, key, dir) ==
  LET q == ToLowerCase(Trim(sd))
      list == SelectSeq(all, LAMBDA a : Matches(a, q))
  IN [announcements |-> ArraySort(all, key, dir),
      list |-> ArraySort(list, key, dir)]

\* the body of the useMemo of filteredSorted: filter returns a new array,
\* which sort reorders in place, so the state array `all` stays as it is;
\* the result is that array and the list returned
filteredSortedMemo(all, sd, key, dir) ==
  LET q == ToLowerCase(Trim(sd))
      list == SelectSeq(all, LAMBDA a : Matches(a, q))
  IN [announcements |-> all,
      list |-> ArraySort(list, key, dir)]

filteredSorted ==
  filteredSortedMemo(announcements, searchDebounced, sortKey, sortDir).list

pageSize == 5

\* clamp without Math.max
clamp_NoLower(n, min, max) == IF max < n THEN max ELSE n

\* clamp(n, min, max) = Math.max(min, Math.min(max, n))
clamp(n, min, max) ==
  LET lo == IF max < n THEN max ELSE n
  IN IF min > lo THEN min ELSE lo

\* Math.ceil(n / d) for n >= 0, d > 0
Ceil(n, d) == (n + d - 1) \div d

\* Math.max(1, Math.ceil(length / pageSize))
PageCountOf(length) == IF Ceil(length, pageSize) < 1 THEN 1 ELSE Ceil(length, pageSize)

pageCount == PageCountOf(Len(filteredSorted))

pageSafe == clamp(page, 1, pageCount)

\* Array.prototype.slice(start, end) for 0 <= start <= end
Slice(list, start, end) ==
  SubSeq(list, start + 1, IF end > Len(list) THEN Len(list) ELSE end)

\* filteredSorted.slice((p - 1) * pageSize, p * pageSize)
PageItemsOf(list, p) == Slice(list, (p - 1) * pageSize, p * pageSize)

pageItems == PageItemsOf(filteredSorted, pageSafe)

\* the list controls without the effect that keeps the page in range
keepInRange_Never == page' = page

\* useEffect(() => { if (page !== pageSafe) setPage(pageSafe) }, [pageCount])
keepInRange ==
  LET list == filteredSortedMemo(announcements', searchDebounced', sortKey', sortDir').list
      count == PageCountOf(Len(list))
  IN page' = IF count # pageCount /\ page # clamp(page, 1, count)
             THEN clamp(page, 1, count)
             ELSE page

----------------------------------------------------------------------------
(* Auth *)

login(username, password, role) ==
  LET uname == Trim(username)
      pwd   == Trim(password)
  IN /\ LoginScreen
     /\ IF uname = EmptyText \/ pwd = EmptyText
        THEN /\ pushToast("Enter a username and password.", "warn")
             /\ UNCHANGED user
        ELSE /\ user' = [name |-> uname, role |-> role]
             /\ pushToast("Welcome, " \o NameText(uname) \o "!", "info")
     /\ UNCHANGED <<announcements, storage, announcementData, editingId, editDraft,
                    confirmOpen, pendingDelete, now>>
     /\ UNCHANGED <<listControls, storageOk, session, msgs>>

logout ==
  /\ Shell
  /\ user' = NoUser
  /\ pushToast("You are logged out.", "info")
  /\ UNCHANGED <<announcements, storage, announcementData, editingId, editDraft,
                 confirmOpen, pendingDelete, now>>
  /\ UNCHANGED <<listControls, storageOk, session>>
  /\ msgs' = << >>

----------------------------------------------------------------------------
(* Publish form *)

\* onChange of the title input of the create card
setAnnouncementTitle(v) ==
  /\ Shell
  /\ announcementData' = [announcementData EXCEPT !.title = v]
  /\ UNCHANGED <<user, announcements, storage, editingId, editDraft, confirmOpen,
                 pendingDelete, toast, now>>
  /\ UNCHANGED <<listControls, storageOk, session, msgs>>

\* onChange of the message textarea of the create card
setAnnouncementMessage(v) ==
  /\ Shell
  /\ announcementData' = [announcementData EXCEPT !.message = v]
  /\ UNCHANGED <<user, announcements, storage, editingId, editDraft, confirmOpen,
                 pendingDelete, toast, now>>
  /\ UNCHANGED <<listControls, storageOk, session, msgs>>

\* the entry publishAnnouncement builds from the trimmed draft
newA(title, message) ==
  [id       |-> uid,
   title    |-> title,
   message  |-> message,
   author   |-> IF user = NoUser \/ user.name = EmptyText
                THEN <<"S", "y", "s", "t", "e", "m">> ELSE user.name,
   verified |-> TRUE,
   date     |-> nowISO]

\* publishAnnouncement with the new entry put behind the list
publishAnnouncement_Append ==
  LET title   == Trim(announcementData.title)
      message == Trim(announcementData.message)
  IN /\ Shell
     /\ IF ~canManage
        THEN /\ pushToast("Only admins can publish announcements.", "warn")
             /\ UNCHANGED <<announcements, storage, announcementData, now>>
        ELSE IF Len(title) < MinTitleLen
        THEN /\ pushToast("Title must be at least 3 characters.", "warn")
             /\ UNCHANGED <<announcements, storage, announcementData, now>>
        ELSE IF Len(message) < MinMessageLen
        THEN /\ pushToast("Message must be at least 5 characters.", "warn")
             /\ UNCHANGED <<announcements, storage, announcementData, now>>
        ELSE /\ now <= MaxPublish
             /\ announcements' = announcements \o <<newA(title, message)>>
             /\ persistAnnouncements
             /\ announcementData' = EmptyDraft
             /\ pushToast("Announcement published.", "info")
             /\ now' = now + 1
     /\ UNCHANGED <<user, editingId, editDraft, confirmOpen, pendingDelete>>
     /\ UNCHANGED <<listControls, storageOk, session, msgs>>

\* publishAnnouncement with the title length taken before trimming
publishAnnouncement_RawTitle ==
  LET title   == Trim(announcementData.title)
      message == Trim(announcementData.message)
  IN /\ Shell
     /\ IF ~canManage
        THEN /\ pushToast("Only admins can publish announcements.", "warn")
             /\ UNCHANGED <<announcements, storage, announcementData, now>>
        ELSE IF Len(announcementData.title) < MinTitleLen
        THEN /\ pushToast("Title must be at least 3 characters.", "warn")
             /\ UNCHANGED <<announcements, storage, announcementData, now>>
        ELSE IF Len(message) < MinMessageLen
        THEN /\ pushToast("Message must be at least 5 characters.", "warn")
             /\ UNCHANGED <<announcements, storage, announcementData, now>>
        ELSE /\ now <= MaxPublish
             /\ announcements' = <<newA(title, message)>> \o announcements
             /\ persistAnnouncements
             /\ announcementData' = EmptyDraft
             /\ pushToast("Announcement published.", "info")
             /\ now' = now + 1
     /\ UNCHANGED <<user, editingId, editDraft, confirmOpen, pendingDelete>>
     /\ UNCHANGED <<listControls, storageOk, session, msgs>>

publishAnnouncement ==
  LET title   == Trim(announcementData.title)
      message == Trim(announcementData.message)
  IN /\ Shell
     /\ IF ~canManage
        THEN /\ pushToast("Only admins can publish announcements.", "warn")
             /\ UNCHANGED <<announcements, storage, announcementData, now>>
        ELSE IF Len(title) < MinTitleLen
        THEN /\ pushToast("Title must be at least 3 characters.", "warn")
             /\ UNCHANGED <<announcements, storage, announcementData, now>>
        ELSE IF Len(message) < MinMessageLen
        THEN /\ pushToast("Message must be at least 5 characters.", "warn")
             /\ UNCHANGED <<announcements, storage, announcementData, now>>
        ELSE /\ now <= MaxPublish
             /\ announcements' = <<newA(title, message)>> \o announcements
             /\ persistAnnouncements
             /\ announcementData' = EmptyDraft
             /\ pushToast("Announcement published.", "info")
             /\ now' = now + 1
     /\ UNCHANGED <<user, editingId, editDraft, confirmOpen, pendingDelete>>
     /\ UNCHANGED <<search, searchDebounced, timers, sortKey, sortDir, storageOk, session, msgs>>
     /\ keepInRange

----------------------------------------------------------------------------
(* Edit focus *)

\* editingId === ann.id for a row of the list: the row shows the edit inputs
EditingRow == \E i \in 1..Len(announcements) : announcements[i].id = editingId

\* startEdit that keeps the scratch draft of an edit already in progress
startEdit_KeepDraft(a) ==
  /\ Shell
  /\ IF ~canManage \/ a = NoAnnouncement
     THEN UNCHANGED <<editingId, editDraft>>
     ELSE /\ editingId' = a.id
          /\ editDraft' = IF editingId = NoId
                          THEN [title |-> a.title, message |-> a.message]
                          ELSE editDraft
  /\ UNCHANGED <<user, announcements, storage, announcementData, confirmOpen,
                 pendingDelete, toast, now>>
  /\ UNCHANGED <<listControls, storageOk, session, msgs>>

startEdit(a) ==
  /\ Shell
  /\ IF ~canManage \/ a = NoAnnouncement
     THEN UNCHANGED <<editingId, editDraft>>
     ELSE /\ editingId' = a.id
          /\ editDraft' = [title |-> a.title, message |-> a.message]
  /\ UNCHANGED <<user, announcements, storage, announcementData, confirmOpen,
                 pendingDelete, toast, now>>
  /\ UNCHANGED <<listControls, storageOk, session, msgs>>

\* setEditTitle that writes the typed title through to the stored entry
setEditTitle_WriteThrough(v) ==
  /\ Shell /\ EditingRow
  /\ editDraft' = [editDraft EXCEPT !.title = v]
  /\ announcements' =
       [i \in 1..Len(announcements) |->
          IF announcements[i].id = editingId
          THEN [announcements[i] EXCEPT !.title = v]
          ELSE announcements[i]]
  /\ persistAnnouncements
  /\ UNCHANGED <<user, announcementData, editingId, confirmOpen,
                 pendingDelete, toast, now>>
  /\ UNCHANGED <<listControls, storageOk, session, msgs>>

\* onChange of the title input of the row in Editing
setEditTitle(v) ==
  /\ Shell /\ EditingRow
  /\ editDraft' = [editDraft EXCEPT !.title = v]
  /\ UNCHANGED <<user, announcements, storage, announcementData, editingId,
                 confirmOpen, pendingDelete, toast, now>>
  /\ UNCHANGED <<listControls, storageOk, session, msgs>>

\* onChange of the message textarea of the row in Editing
setEditMessage(v) ==
  /\ Shell /\ EditingRow
  /\ editDraft' = [editDraft EXCEPT !.message = v]
  /\ UNCHANGED <<user, announcements, storage, announcementData, editingId,
                 confirmOpen, pendingDelete, toast, now>>
  /\ UNCHANGED <<listControls, storageOk, session, msgs>>

cancelEdit ==
  /\ Shell
  /\ editingId' = NoId
  /\ editDraft' = EmptyDraft
  /\ UNCHANGED <<user, announcements, storage, announcementData, confirmOpen,
                 pendingDelete, toast, now>>
  /\ UNCHANGED <<listControls, storageOk, session, msgs>>

\* MapEdit without the test on the id
MapEdit_All(prev, id, t, m) ==
  [i \in 1..Len(prev) |-> [prev[i] EXCEPT !.title = t, !.message = m]]

\* prev.map(a => a.id === id ? { ...a, title: t, message: m } : a)
MapEdit(prev, id, t, m) ==
  [i \in 1..Len(prev) |->
     IF prev[i].id = id
     THEN [prev[i] EXCEPT !.title = t, !.message = m]
     ELSE prev[i]]

\* saveEdit without the test on the message length
saveEdit_NoMessageCheck(id) ==
  LET t == Trim(editDraft.title)
      m == Trim(editDraft.message)
  IN /\ Shell
     /\ IF ~canManage
        THEN UNCHANGED <<announcements, storage, editingId, editDraft, toast>>
        ELSE IF Len(t) < MinTitleLen
        THEN /\ pushToast("Title must be at least 3 characters.", "warn")
             /\ UNCHANGED <<announcements, storage, editingId, editDraft>>
        ELSE /\ announcements' = MapEdit(announcements, id, t, m)
             /\ persistAnnouncements
             /\ editingId' = NoId
             /\ editDraft' = EmptyDraft
             /\ pushToast("Announcement updated.", "info")
     /\ UNCHANGED <<user, announcementData, confirmOpen, pendingDelete, now>>
     /\ UNCHANGED <<listControls, storageOk, session, msgs>>

\* saveEdit leaving the edit mode when the draft is rejected
saveEdit_CloseOnInvalid(id) ==
  LET t == Trim(editDraft.title)
      m == Trim(editDraft.message)
  IN /\ Shell
     /\ IF ~canManage
        THEN UNCHANGED <<announcements, storage, editingId, editDraft, toast>>
        ELSE IF Len(t) < MinTitleLen
        THEN /\ pushToast("Title must be at least 3 characters.", "warn")
             /\ editingId' = NoId
             /\ editDraft' = EmptyDraft
             /\ UNCHANGED <<announcements, storage>>
        ELSE IF Len(m) < MinMessageLen
        THEN /\ pushToast("Message must be at least 5 characters.", "warn")
             /\ editingId' = NoId
             /\ editDraft' = EmptyDraft
             /\ UNCHANGED <<announcements, storage>>
        ELSE /\ announcements' = MapEdit(announcements, id, t, m)
             /\ persistAnnouncements
             /\ editingId' = NoId
             /\ editDraft' = EmptyDraft
             /\ pushToast("Announcement updated.", "info")
     /\ UNCHANGED <<user, announcementData, confirmOpen, pendingDelete, now>>
     /\ UNCHANGED <<listControls, storageOk, session, msgs>>

saveEdit(id) ==
  LET t == Trim(editDraft.title)
      m == Trim(editDraft.message)
  IN /\ Shell
     /\ IF ~canManage
        THEN UNCHANGED <<announcements, storage, editingId, editDraft, toast>>
        ELSE IF Len(t) < MinTitleLen
        THEN /\ pushToast("Title must be at least 3 characters.", "warn")
             /\ UNCHANGED <<announcements, storage, editingId, editDraft>>
        ELSE IF Len(m) < MinMessageLen
        THEN /\ pushToast("Message must be at least 5 characters.", "warn")
             /\ UNCHANGED <<announcements, storage, editingId, editDraft>>
        ELSE /\ announcements' = MapEdit(announcements, id, t, m)
             /\ persistAnnouncements
             /\ editingId' = NoId
             /\ editDraft' = EmptyDraft
             /\ pushToast("Announcement updated.", "info")
     /\ UNCHANGED <<user, announcementData, confirmOpen, pendingDelete, now>>
     /\ UNCHANGED <<search, searchDebounced, timers, sortKey, sortDir, storageOk, session, msgs>>
     /\ keepInRange

----------------------------------------------------------------------------
(* Delete confirmation sub-flow *)

\* requestDelete that removes the entry at once, without confirmation
requestDelete_Immediate(id) ==
  /\ Shell
  /\ IF ~canManage
     THEN UNCHANGED <<announcements, storage, toast>>
     ELSE /\ announcements' = SelectSeq(announcements, LAMBDA a : a.id # id)
          /\ persistAnnouncements
          /\ pushToast("Announcement deleted.", "info")
  /\ UNCHANGED <<user, announcementData, editingId, editDraft, confirmOpen,
                 pendingDelete, now>>
  /\ UNCHANGED <<listControls, storageOk, session, msgs>>

requestDelete(id) ==
  /\ Shell
  /\ IF ~canManage
     THEN UNCHANGED <<pendingDelete, confirmOpen>>
     ELSE /\ pendingDelete' = id
          /\ confirmOpen' = TRUE
  /\ UNCHANGED <<user, announcements, storage, announcementData, editingId,
                 editDraft, toast, now>>
  /\ UNCHANGED <<listControls, storageOk, session, msgs>>

\* onCancel of the Confirm dialog
confirmCancel ==
  /\ Shell
  /\ confirmOpen' = FALSE
  /\ pendingDelete' = NoId
  /\ UNCHANGED <<user, announcements, storage, announcementData, editingId,
                 editDraft, toast, now>>
  /\ UNCHANGED <<listControls, storageOk, session, msgs>>

\* FilterOut with the test inverted
FilterOut_Inverted(prev, id) == SelectSeq(prev, LAMBDA a : a.id = id)

\* prev.filter(a => a.id !== id)
FilterOut(prev, id) == SelectSeq(prev, LAMBDA a : a.id # id)

\* doDelete that closes the dialog and leaves the target pending
doDelete_KeepPending ==
  LET id == pendingDelete
  IN /\ Shell
     /\ confirmOpen' = FALSE
     /\ UNCHANGED pendingDelete
     /\ IF id = NoId
        THEN UNCHANGED <<announcements, storage, toast>>
        ELSE /\ announcements' = FilterOut(announcements, id)
             /\ persistAnnouncements
             /\ pushToast("Announcement deleted.", "info")
     /\ UNCHANGED <<user, announcementData, editingId, editDraft, now>>
     /\ UNCHANGED <<listControls, storageOk, session, msgs>>

\* onConfirm of the Confirm dialog
doDelete ==
  LET id == pendingDelete
  IN /\ Shell
     /\ confirmOpen' = FALSE
     /\ pendingDelete' = NoId
     /\ IF id = NoId
        THEN UNCHANGED <<announcements, storage, toast>>
        ELSE /\ announcements' = FilterOut(announcements, id)
             /\ persistAnnouncements
             /\ pushToast("Announcement deleted.", "info")
     /\ UNCHANGED <<user, announcementData, editingId, editDraft, now>>
     /\ UNCHANGED <<search, searchDebounced, timers, sortKey, sortDir, storageOk, session, msgs>>
     /\ keepInRange

----------------------------------------------------------------------------
\* the entries a row button can pass to startEdit, and a null argument
EditArgs == {announcements[i] : i \in 1..Len(announcements)} \cup {NoAnnouncement}

Next ==
  \/ \E u \in UserNames, p \in Passwords, r \in Roles : login(u, p, r)
  \/ logout
  \/ \E v \in TypedTitles : setAnnouncementTitle(v)
  \/ \E v \in TypedMessages : setAnnouncementMessage(v)
  \/ publishAnnouncement
  \/ \E a \in EditArgs : startEdit(a)
  \/ \E v \in EditTitles : setEditTitle(v)
  \/ \E v \in EditMessages : setEditMessage(v)
  \/ cancelEdit
  \/ \E id \in IdSpace : saveEdit(id)
  \/ \E id \in IdSpace : requestDelete(id)
  \/ confirmCancel
  \/ doDelete

Spec == Init /\ [][Next]_vars

TypeOK ==
  /\ RoleOf(user) \in Roles \cup {"undefined"}
  /\ editingId \in IdSpace \cup {NoId}
  /\ pendingDelete \in IdSpace \cup {NoId}
  /\ confirmOpen \in BOOLEAN
  /\ Len(announcements) <= MaxPublish

----------------------------------------------------------------------------
(* The list controls: search box, sort buttons, pager *)

\* the state the list controls leave alone
formState ==
  <<user, announcementData, editingId, editDraft, confirmOpen, pendingDelete,
    toast, now>>

\* the render that follows a change of a list control: filteredSorted is
\* computed anew, and the state array is what the computation leaves of it.
\* The array is the same object as before, so the persistence effect does
\* not run.
render ==
  /\ announcements' =
       filteredSortedMemo(announcements, searchDebounced', sortKey', sortDir').announcements
  /\ UNCHANGED <<formState, storage, storageOk, session, msgs>>

\* setSearch without the clearTimeout of the effect's cleanup
setSearch_NoClear(v) ==
  /\ Shell
  /\ v # search
  /\ search' = v
  /\ timers' = timers \cup {v}
  /\ UNCHANGED <<searchDebounced, sortKey, sortDir, page>>
  /\ render

\* onChange of the search input: setValue(v); the effect of useDebouncedState
\* runs again, its cleanup clears the timer of the previous run and a new
\* timer is set that holds v
setSearch(v) ==
  /\ Shell
  /\ v # search
  /\ search' = v
  /\ timers' = {v}
  /\ UNCHANGED <<searchDebounced, sortKey, sortDir, page>>
  /\ render

\* a pending timer fires and is gone, setDebounced is not called
debounceTimeout_NoSet(t) ==
  /\ t \in timers
  /\ searchDebounced' = searchDebounced
  /\ timers' = timers \ {t}
  /\ UNCHANGED <<search, sortKey, sortDir>>
  /\ render
  /\ keepInRange

\* a pending timer fires: setDebounced(value) with the value it holds
debounceTimeout(t) ==
  /\ t \in timers
  /\ searchDebounced' = t
  /\ timers' = timers \ {t}
  /\ UNCHANGED <<search, sortKey, sortDir>>
  /\ render
  /\ keepInRange

\* the buttons Date, Title, Author
setSortKey(k) ==
  /\ Shell
  /\ sortKey' = k
  /\ UNCHANGED <<search, searchDebounced, timers, sortDir, page>>
  /\ render

\* the button that toggles the direction
toggleSortDir ==
  /\ Shell
  /\ sortDir' = IF sortDir = "asc" THEN "desc" ELSE "asc"
  /\ UNCHANGED <<search, searchDebounced, timers, sortKey, page>>
  /\ render

\* the pager is rendered below a list that is not empty
PagerShown == Shell /\ filteredSorted # << >>

\* the button to the previous page, disabled on the first page
prevPage ==
  /\ PagerShown
  /\ ~(pageSafe <= 1)
  /\ page' = clamp(page - 1, 1, pageCount)
  /\ UNCHANGED <<search, searchDebounced, timers, sortKey, sortDir>>
  /\ render

\* the button to the next page, disabled on the last page
nextPage ==
  /\ PagerShown
  /\ ~(pageSafe >= pageCount)
  /\ page' = clamp(page + 1, 1, pageCount)
  /\ UNCHANGED <<search, searchDebounced, timers, sortKey, sortDir>>
  /\ render

SortKeys == {"date", "title", "author"}

\* typed into the search box
SearchTexts ==
  { << >>, <<" ">>, <<" ", "a", "B", " ">>,
    <<"n", "o", "m", "a", "t", "c", "h">> }

----------------------------------------------------------------------------
(* Lists found in the store at start-up *)

MaxList == 3
MaxStored == 7

Entry(id, title, message, author, date) ==
  [id |-> id, title |-> title, message |-> message, author |-> author,
   verified |-> TRUE, date |-> date]

\* entries as an earlier session or another program may have left them
StoredEntries ==
  { Entry(1, <<"A", "b">>, <<"q">>, <<"b", "o">>, 2),
    Entry(2, <<"c">>, <<"x", "a", "B", "y">>, <<"A", "n", "n">>, 1),
    Entry(3, Missing, Missing, Missing, MissingDate),
    Entry(4, <<"A", "b">>, <<"q">>, <<"C", "a", "b">>, UnparsableDate),
    Entry(5, <<"b">>, Missing, <<"b", "o">>, 3) }

\* the lists of n entries, no entry twice
RECURSIVE ListsOf(_)
ListsOf(n) ==
  IF n = 0 THEN { << >> }
  ELSE { Append(l, e) : l \in ListsOf(n - 1), e \in StoredEntries } \ 
       { l \in { Append(l, e) : l \in ListsOf(n - 1), e \in StoredEntries } :
           \E i \in 1..(n - 1) : l[i] = l[n] }

\* a list published one entry per tick, newest first
Published(n) ==
  [i \in 1..n |-> Entry(n + 1 - i, <<"n", "o">>, <<"m">>, <<"A", "n", "n">>, n + 1 - i)]

\* "Exam Reminder", "Field Trip", "Grade Policy" published in that order
ExamFieldGrade ==
  << Entry(3, <<"G", "r", "a", "d", "e", " ", "P", "o", "l", "i", "c", "y">>,
           <<"m">>, <<"A", "n", "n">>, 3),
     Entry(2, <<"F", "i", "e", "l", "d", " ", "T", "r", "i", "p">>,
           <<"m">>, <<"A", "n", "n">>, 2),
     Entry(1, <<"E", "x", "a", "m", " ", "R", "e", "m", "i", "n", "d", "e", "r">>,
           <<"m">>, <<"A", "n", "n">>, 1) >>

QueryLists ==
  UNION { ListsOf(n) : n \in 0..MaxList }
    \cup { Published(n) : n \in 1..MaxStored }
    \cup { ExamFieldGrade }

\* the application with a list loaded from the store and a user logged in
QueryInit ==
  /\ user = [name |-> <<"a", "n", "n">>, role |-> "student"]
  /\ announcements \in QueryLists
  /\ announcementData = EmptyDraft
  /\ editingId = NoId
  /\ editDraft = EmptyDraft
  /\ confirmOpen = FALSE
  /\ pendingDelete = NoId
  /\ toast = NoToast
  /\ now = 1
  /\ storageOk = TRUE
  /\ storage = storageSet(JSONStringify(announcements), announcements)
  /\ search = EmptyText
  /\ searchDebounced = EmptyText
  /\ timers = {EmptyText}
  /\ sortKey = "date"
  /\ sortDir = "desc"
  /\ page = 1
  /\ SessionInit

QueryNext ==
  \/ \E v \in SearchTexts : setSearch(v)
  \/ \E t \in timers : debounceTimeout(t)
  \/ \E k \in SortKeys : setSortKey(k)
  \/ toggleSortDir
  \/ prevPage
  \/ nextPage

SpecQuery == QueryInit /\ [][QueryNext]_vars

\* the lists of at most one entry, and one list of more than a page
QueryLiveInit ==
  /\ QueryInit
  /\ announcements \in ListsOf(1) \cup {Published(pageSize + 1)}

\* the event loop runs the callback of a timer that was set and not cleared
SpecQueryLive ==
  /\ QueryLiveInit
  /\ [][QueryNext]_vars
  /\ WF_vars(\E t \in timers : debounceTimeout(t))

----------------------------------------------------------------------------
(* The application started on a list of more than one page *)

\* a list of n entries published in an earlier session, newest first; time
\* is counted from the start of this session
Earlier(n) ==
  [i \in 1..n |-> Entry(-(i + 1), <<"n", "o">>, <<"m">>, <<"A", "n", "n">>, -(i + 1))]

\* an admin is logged in, the list fills one page and has one entry more
PagesInit ==
  /\ user = [name |-> <<"a", "n", "n">>, role |-> "admin"]
  /\ announcements = Earlier(pageSize + 1)
  /\ announcementData = EmptyDraft
  /\ editingId = NoId
  /\ editDraft = EmptyDraft
  /\ confirmOpen = FALSE
  /\ pendingDelete = NoId
  /\ toast = NoToast
  /\ now = 1
  /\ storageOk = TRUE
  /\ storage = storageSet(JSONStringify(announcements), announcements)
  /\ search = EmptyText
  /\ searchDebounced = EmptyText
  /\ timers = {EmptyText}
  /\ sortKey = "date"
  /\ sortDir = "desc"
  /\ page = 1
  /\ SessionInit

PagesNext ==
  \/ setAnnouncementTitle(<<" ", "a", "b", "c", " ">>)
  \/ setAnnouncementMessage(<<" ", "h", "e", "l", "l", "o", " ">>)
  \/ publishAnnouncement
  \/ \E i \in {1, Len(pageItems)} \cap DOMAIN pageItems :
       requestDelete(pageItems[i].id)
  \/ doDelete
  \/ \E v \in {EmptyText, <<"a", "b">>} : setSearch(v)
  \/ \E t \in timers : debounceTimeout(t)
  \/ prevPage
  \/ nextPage

SpecPages == PagesInit /\ [][PagesNext]_vars

----------------------------------------------------------------------------
(* The application started on a store that holds anything *)

\* what may be found under the key at start-up
StoredItems ==
  { AbsentItem, UnreadableItem, GarbageItem, JSONStringify(<< >>),
    JSONStringify(<< Entry(1, <<"a", "b", "c">>, <<"h", "e", "l", "l", "o">>,
                           <<"a", "n", "n">>, 2) >>) }

\* setItem starts to throw: the quota is used up, or access is denied
storageFails ==
  /\ storageOk
  /\ storageOk' = FALSE
  /\ UNCHANGED <<formState, announcements, storage, listControls, session, msgs>>

\* another tab or program writes the item; the application has no listener
\* for the storage event
externalWrite(item) ==
  /\ item # storage
  /\ storage' = item
  /\ UNCHANGED <<formState, announcements, storageOk, listControls, session, msgs>>

\* useState(storage.get('mythos_announcements', [])) and the first run of the
\* persistence effect; the entry found in the store was published in the
\* millisecond before the start, and its date is the one of the first
\* publish of this session
StoreInit ==
  /\ user = NoUser
  /\ storageOk \in BOOLEAN
  /\ \E item \in StoredItems :
       /\ announcements = storageGet(item, << >>)
       /\ storage = storageSet(item, storageGet(item, << >>))
  /\ announcementData = EmptyDraft
  /\ editingId = NoId
  /\ editDraft = EmptyDraft
  /\ confirmOpen = FALSE
  /\ pendingDelete = NoId
  /\ toast = NoToast
  /\ now = Len(announcements) + 1
  /\ search = EmptyText
  /\ searchDebounced = EmptyText
  /\ timers = {EmptyText}
  /\ sortKey = "date"
  /\ sortDir = "desc"
  /\ page = 1
  /\ SessionInit

StoreNext ==
  \/ login(<<" ", "a", "n", "n">>, <<"p", "w">>, "admin")
  \/ setAnnouncementTitle(<<" ", "a", "b", "c", " ">>)
  \/ setAnnouncementMessage(<<" ", "h", "e", "l", "l", "o", " ">>)
  \/ publishAnnouncement
  \/ \E a \in EditArgs \ {NoAnnouncement} : startEdit(a)
  \/ setEditTitle(<<" ", "x", "y", "z">>)
  \/ saveEdit(editingId)
  \/ \E i \in 1..Len(announcements) : requestDelete(announcements[i].id)
  \/ doDelete
  \/ storageFails
  \/ externalWrite(AbsentItem)

SpecStore == StoreInit /\ [][StoreNext]_vars

----------------------------------------------------------------------------
(* Tabs *)

\* everything but the active tab, the notification list and the chat
appData ==
  <<formState, announcements, storage, storageOk, listControls>>

\* ids pushed to allTabs in a render for the current user; settings.feature
\* is null, so there is no tab 'special'
allTabs ==
  {"chat", "math", "science", "writing", "study", "progress"}
    \cup (IF RoleOf(user) = "teacher" THEN {"lessons", "quizzes"} ELSE {})
    \cup (IF RoleOf(user) = "admin"
          THEN {"analytics", "announce", "settings"} ELSE {})

\* onClick of a button of the side bar
setTab(t) ==
  /\ Shell
  /\ t \in allTabs
  /\ tab' = t
  /\ UNCHANGED <<appData, toasts, toastTimers, input, loading, calls, msgs>>

----------------------------------------------------------------------------
(* Toasts *)

\* texts and types pushToast is called with at the login screen
ToastCalls ==
  { [message |-> "Enter a username and password.", type |-> "warn"],
    [message |-> "You are logged out.", type |-> "info"] }

\* prev.filter(t => t.id !== id)
WithoutId(list, id) == SelectSeq(list, LAMBDA t : t.id # id)

\* a call of pushToast seen from the list on screen: the toast is appended
\* under a fresh id and its removal timer is started
toastPushed(message, type) ==
  /\ now <= MaxToasts
  /\ pushToast(message, type)
  /\ toasts' = Append(toasts, [id |-> uid, message |-> message, type |-> type])
  /\ toastTimers' = toastTimers \cup {uid}
  /\ now' = now + 1
  /\ UNCHANGED <<user, announcementData, editingId, editDraft, confirmOpen,
                 pendingDelete>>
  /\ UNCHANGED <<announcements, storage, storageOk, listControls>>
  /\ UNCHANGED <<tab, input, loading, calls, msgs>>

\* the removal timer removing the oldest toast on screen
toastTimeout_First(id) ==
  /\ id \in toastTimers
  /\ toasts' = IF toasts = << >> THEN toasts ELSE Tail(toasts)
  /\ toastTimers' = toastTimers \ {id}
  /\ UNCHANGED <<appData, tab, input, loading, calls, msgs>>

\* the callback of setTimeout in pushToast, ttl later
toastTimeout(id) ==
  /\ id \in toastTimers
  /\ toasts' = WithoutId(toasts, id)
  /\ toastTimers' = toastTimers \ {id}
  /\ UNCHANGED <<appData, tab, input, loading, calls, msgs>>

\* onClick of the X button of a toast on screen
remove(id) ==
  /\ \E i \in DOMAIN toasts : toasts[i].id = id
  /\ toasts' = WithoutId(toasts, id)
  /\ UNCHANGED <<appData, tab, toastTimers, input, loading, calls, msgs>>

ToastsNext ==
  \/ \E c \in ToastCalls : toastPushed(c.message, c.type)
  \/ \E id \in toastTimers : toastTimeout(id)
  \/ \E i \in DOMAIN toasts : remove(toasts[i].id)

SpecToasts == Init /\ [][ToastsNext]_vars

----------------------------------------------------------------------------
(* AI chat *)

\* typed into the chat input
ChatInputs == { << >>, <<" ">>, <<" ", "h", "i">> }

\* null
Null == <<"null">>

\* an exception leaving callProxy
Thrown == <<"thrown">>

\* data.text, or content[0].text, of a response of the model
ReplyText == <<"o", "k">>

\* what fetch('/api/chat') comes back with
Responses == {"text", "contentText", "contentEmpty", "httpError", "rejected"}

\* callProxy without try/catch
callProxy_Rethrow(response) ==
  IF response \in {"httpError", "rejected"} THEN Thrown
  ELSE IF response = "contentEmpty" THEN EmptyText
  ELSE ReplyText

\* callProxy(messages): the reply text, '' or null
callProxy(response) ==
  IF response \in {"httpError", "rejected"} THEN Null    \* catch
  ELSE IF response = "text" THEN ReplyText               \* data.text
  ELSE IF response = "contentText" THEN ReplyText        \* content[0].text
  ELSE EmptyText                                         \* content[0].text || ''

\* `You said:\n\n${text}\n\n(Connect your real model ...)`
Fallback(text) ==
  <<"You said:\n\n">> \o text
    \o <<"\n\n(Connect your real model via /api/chat to replace this demo.)">>

\* the chat state as one value
chat == [msgs |-> msgs, input |-> input, loading |-> loading, calls |-> calls]

\* send() up to its first await, called from a render whose input and
\* loading are those of closure, on the chat state c
send(closure, c) ==
  IF Trim(closure.input) = EmptyText \/ closure.loading THEN c
  ELSE LET text    == Trim(closure.input)
           userMsg == [role |-> "user", content |-> text]
       IN [msgs    |-> Append(c.msgs, userMsg),
           input   |-> EmptyText,
           loading |-> TRUE,
           calls   |-> Append(c.calls, [text |-> text, at |-> "callProxy"])]

\* the chat state becomes c
setChat(c) ==
  /\ msgs' = c.msgs
  /\ input' = c.input
  /\ loading' = c.loading
  /\ calls' = c.calls

\* messages and requests the conversation still has room for
Room == MaxMsgs - (Len(msgs) + Len(calls))

\* onChange of the chat textarea, which is disabled while loading
setInput(v) ==
  /\ Shell
  /\ tab = "chat"
  /\ ~loading
  /\ input' = v
  /\ UNCHANGED <<appData, tab, toasts, toastTimers, loading, calls, msgs>>

\* onClick of the Send button, disabled while loading or on a blank input
sendButton ==
  /\ Shell
  /\ tab = "chat"
  /\ ~(loading \/ Trim(input) = EmptyText)
  /\ Room >= 2
  /\ setChat(send(chat, chat))
  /\ UNCHANGED <<appData, tab, toasts, toastTimers>>

\* Ctrl/Cmd+Enter in the chat textarea: onKeyDown of the textarea calls
\* send(), then the event reaches the keydown listener of window, which
\* calls send() as well on the chat tab.  The listener is replaced by an
\* effect with input among its dependencies; flushed tells whether that
\* effect has run when the event arrives at window (it runs with the
\* render of a discrete event under createRoot, after the event otherwise)
keydownTextarea(flushed) ==
  LET first    == send(chat, chat)
      listener == IF flushed THEN first ELSE chat
  IN /\ Shell
     /\ tab = "chat"
     /\ ~loading
     /\ Room >= 4
     /\ setChat(send(listener, first))
     /\ UNCHANGED <<appData, tab, toasts, toastTimers>>

\* Ctrl/Cmd+Enter anywhere else, the login screen included: the keydown
\* listener of window alone
keydown ==
  \/ /\ tab = "chat"
     /\ Room >= 2
     /\ setChat(send(chat, chat))
     /\ UNCHANGED <<appData, tab, toasts, toastTimers>>
  \/ /\ tab = "announce"
     /\ canManage
     /\ publishAnnouncement

\* calls without its i-th element
Resumed(i) == SubSeq(calls, 1, i - 1) \o SubSeq(calls, i + 1, Len(calls))

\* await callProxy(history) is over for the i-th suspended send
proxyReturns(i, response) ==
  LET reply == callProxy(response)
  IN /\ i \in DOMAIN calls
     /\ calls[i].at = "callProxy"
     /\ IF reply = Thrown
        THEN /\ msgs' = Append(msgs, [role |-> "assistant",
                                      content |-> <<"Error. Please retry.">>])
             /\ pushToast("Chat error. Check your connection.", "error")
             /\ loading' = FALSE
             /\ calls' = Resumed(i)
        ELSE IF reply \in {Null, EmptyText}
        THEN /\ calls' = [calls EXCEPT ![i].at = "setTimeout"]
             /\ UNCHANGED <<msgs, loading, toast>>
        ELSE /\ msgs' = Append(msgs, [role |-> "assistant", content |-> reply])
             /\ loading' = FALSE
             /\ calls' = Resumed(i)
             /\ UNCHANGED toast
     /\ UNCHANGED <<user, announcementData, editingId, editDraft, confirmOpen,
                    pendingDelete, now>>
     /\ UNCHANGED <<announcements, storage, storageOk, listControls>>
     /\ UNCHANGED <<tab, toasts, toastTimers, input>>

\* the 250 ms of the demo fallback are over for the i-th suspended send
fallbackTimeout(i) ==
  /\ i \in DOMAIN calls
  /\ calls[i].at = "setTimeout"
  /\ msgs' = Append(msgs, [role |-> "assistant",
                           content |-> Fallback(calls[i].text)])
  /\ loading' = FALSE
  /\ calls' = Resumed(i)
  /\ UNCHANGED <<appData, tab, toasts, toastTimers, input>>

\* tabs selected in the runs below
Tabs == {"chat", "study", "announce"}

ShellNext ==
  \/ \E role \in {"student", "admin"} :
       login(<<" ", "a", "n", "n">>, <<"p", "w">>, role)
  \/ logout
  \/ \E t \in Tabs : setTab(t)
  \/ \E v \in ChatInputs : setInput(v)
  \/ sendButton
  \/ \E flushed \in BOOLEAN : keydownTextarea(flushed)
  \/ keydown
  \/ \E i \in DOMAIN calls, response \in Responses : proxyReturns(i, response)
  \/ \E i \in DOMAIN calls : fallbackTimeout(i)

SpecShell == Init /\ [][ShellNext]_vars

\* one session of an admin: no login, no logout
ChatInit ==
  /\ user = [name |-> <<"a", "n", "n">>, role |-> "admin"]
  /\ announcements = << >>
  /\ announcementData = EmptyDraft
  /\ editingId = NoId
  /\ editDraft = EmptyDraft
  /\ confirmOpen = FALSE
  /\ pendingDelete = NoId
  /\ toast = NoToast
  /\ now = 1
  /\ storageOk = TRUE
  /\ storage = storageSet(AbsentItem, announcements)
  /\ search = EmptyText
  /\ searchDebounced = EmptyText
  /\ timers = {EmptyText}
  /\ sortKey = "date"
  /\ sortDir = "desc"
  /\ page = 1
  /\ SessionInit

ChatNext ==
  \/ \E t \in {"chat", "announce"} : setTab(t)
  \/ \E v \in ChatInputs : setInput(v)
  \/ sendButton
  \/ \E flushed \in BOOLEAN : keydownTextarea(flushed)
  \/ keydown
  \/ \E i \in DOMAIN calls, response \in Responses : proxyReturns(i, response)
  \/ \E i \in DOMAIN calls : fallbackTimeout(i)

\* a request that is awaited settles, a timer that is set fires
SpecChatLive ==
  /\ ChatInit
  /\ [][ChatNext]_vars
  /\ WF_vars(\E i \in DOMAIN calls, response \in Responses : proxyReturns(i, response))
  /\ WF_vars(\E i \in DOMAIN calls : fallbackTimeout(i))

----------------------------------------------------------------------------
(* Vocabulary of the properties *)

Ids(list) == {list[i].id : i \in 1..Len(list)}

ValidDraft(d) ==
  /\ Len(Trim(d.title)) >= MinTitleLen
  /\ Len(Trim(d.message)) >= MinMessageLen

\* list without its k-th entry
WithoutAt(list, k) == SubSeq(list, 1, k - 1) \o SubSeq(list, k + 1, Len(list))

Idle == ~confirmOpen /\ pendingDelete = NoId
PendingConfirm == confirmOpen /\ pendingDelete # NoId

System == <<"S", "y", "s", "t", "e", "m">>

----------------------------------------------------------------------------
\* C1: a publish, update or remove step taken while the current user's role
\* is not 'admin' leaves the announcement list unchanged, also the confirm
\* step of a delete requested earlier by an admin who has since logged out.
C1_NonAdminNeverMutates ==
  [][ ( /\ ~canManage
        /\ \/ publishAnnouncement
           \/ \E id \in IdSpace : saveEdit(id)
           \/ doDelete )
      => announcements' = announcements ]_vars

\* C2: publish by an admin with a draft whose trimmed title has length >= 3
\* and whose trimmed message has length >= 5 puts one new entry at the head
\* of the list, followed by the previous entries unchanged and in order; the
\* entry has the trimmed title and message, verified = TRUE and the user's
\* name (or the fallback literal) as author.
C2_PublishValid ==
  [][ (publishAnnouncement /\ canManage /\ ValidDraft(announcementData))
      => /\ Len(announcements') = Len(announcements) + 1
         /\ Tail(announcements') = announcements
         /\ Head(announcements').title = Trim(announcementData.title)
         /\ Head(announcements').message = Trim(announcementData.message)
         /\ Head(announcements').verified = TRUE
         /\ Head(announcements').author =
              (IF user.name = EmptyText THEN System ELSE user.name)
         /\ Head(announcements').id \notin Ids(announcements)
         /\ toast'.message = "Announcement published." ]_vars

C2_Witness ==
  /\ toast.message = "Announcement published."
  /\ Len(announcements) = 2
  /\ announcements[1].title = <<"a", "b", "c">>
  /\ announcements[1].message = <<"h", "e", "l", "l", "o">>
  /\ announcements[1].author = <<"a", "n", "n">>
  /\ announcements[1].verified

\* C3: publish by an admin with a draft whose trimmed title is shorter than
\* 3 or whose trimmed message is shorter than 5 reports the title error when
\* the title is too short and otherwise the message error, and leaves the
\* list unchanged.
C3_PublishInvalid ==
  [][ (publishAnnouncement /\ canManage /\ ~ValidDraft(announcementData))
      => /\ announcements' = announcements
         /\ toast'.type = "warn"
         /\ toast'.message =
              (IF Len(Trim(announcementData.title)) < MinTitleLen
               THEN "Title must be at least 3 characters."
               ELSE "Message must be at least 5 characters.") ]_vars

\* an admin's draft whose raw title has 4 characters and whose trimmed title
\* has 2 was rejected with the title error
C3_Witness ==
  /\ canManage
  /\ toast.message = "Title must be at least 3 characters."
  /\ Len(announcementData.title) > MinTitleLen
  /\ Len(Trim(announcementData.title)) < MinTitleLen
  /\ editDraft = EmptyDraft
  /\ Len(announcements) = 1

\* C4: a successful update (saveEdit by an admin with a valid draft) sets
\* the title and message of the entry whose id matches to the trimmed draft
\* and leaves its id, author, verified and date, every other entry, the
\* length and the order of the list unchanged.
C4_UpdateFrame ==
  [][ \A id \in IdSpace :
        (saveEdit(id) /\ canManage /\ ValidDraft(editDraft))
        => /\ Len(announcements') = Len(announcements)
           /\ \A i \in 1..Len(announcements) :
                /\ announcements'[i].id = announcements[i].id
                /\ announcements'[i].author = announcements[i].author
                /\ announcements'[i].verified = announcements[i].verified
                /\ announcements'[i].date = announcements[i].date
                /\ announcements[i].id = id
                     => /\ announcements'[i].title = Trim(editDraft.title)
                        /\ announcements'[i].message = Trim(editDraft.message)
                /\ announcements[i].id # id
                     => announcements'[i] = announcements[i] ]_vars

\* one of two entries was updated to the typed title and message, the other
\* keeps the published ones
C4_Witness ==
  /\ toast.message = "Announcement updated."
  /\ Len(announcements) = 2
  /\ announcements[1].title = <<"x", "y", "z">>
  /\ announcements[1].message = <<"w", "o", "r", "l", "d">>
  /\ announcements[1].date = 2
  /\ announcements[2].title = <<"a", "b", "c">>
  /\ announcements[2].message = <<"h", "e", "l", "l", "o">>

\* C5: saveEdit by an admin with a valid draft and an id that matches no
\* stored announcement does not report success and leaves the list unchanged.
C5_UpdateNotFound ==
  [][ \A id \in IdSpace :
        ( /\ saveEdit(id) /\ canManage /\ ValidDraft(editDraft)
          /\ id \notin Ids(announcements) )
        => /\ announcements' = announcements
           /\ toast'.message # "Announcement updated." ]_vars

\* C6: doDelete by an admin leaves a list with no entry of the pending id and
\* all other entries unchanged and in the same order; when no entry has that
\* id (it was removed before, or never in the list) the list is unchanged and
\* no warning or error is reported.
C6_RemoveIdempotent ==
  [][ (doDelete /\ canManage /\ pendingDelete # NoId)
      => /\ pendingDelete \notin Ids(announcements')
         /\ \A k \in 1..Len(announcements) :
              announcements[k].id = pendingDelete
                => announcements' = WithoutAt(announcements, k)
         /\ pendingDelete \notin Ids(announcements)
              => announcements' = announcements
         /\ toast'.type \notin {"warn", "error"} ]_vars

\* the older of two entries was removed by an admin, the newer one is left
C6_Witness ==
  /\ canManage
  /\ toast.message = "Announcement deleted."
  /\ Len(announcements) = 1
  /\ announcements[1].id = 2

\* C7: the list loses an entry only in the confirm step: requestDelete moves
\* to PendingConfirm and cancel moves to Idle without changing the list,
\* confirm removes exactly the pending target and moves to Idle, and confirm
\* taken in Idle removes nothing.
C7_DeleteSubFlow ==
  [][ /\ \A id \in IdSpace :
           requestDelete(id)
           => /\ announcements' = announcements
              /\ canManage => (confirmOpen' /\ pendingDelete' = id)
      /\ confirmCancel
           => (announcements' = announcements /\ ~confirmOpen'
               /\ pendingDelete' = NoId)
      /\ doDelete
           => /\ Ids(announcements') = Ids(announcements) \ {pendingDelete}
              /\ Len(announcements') = Cardinality(Ids(announcements'))
              /\ ~confirmOpen' /\ pendingDelete' = NoId
              /\ Idle => announcements' = announcements
      /\ ~(Ids(announcements) \subseteq Ids(announcements')) => doDelete
    ]_vars

\* a delete was confirmed and a new request for a stored entry is pending
C7_Witness ==
  /\ PendingConfirm
  /\ pendingDelete \in Ids(announcements)
  /\ toast.message = "Announcement deleted."

\* C8: a delete request made while another is pending replaces the pending
\* target, and the following confirm removes that target only and leaves no
\* request pending.
C8_LastRequestWins ==
  [][ /\ \A id \in IdSpace :
           (requestDelete(id) /\ canManage /\ PendingConfirm)
           => (confirmOpen' /\ pendingDelete' = id
               /\ announcements' = announcements)
      /\ (doDelete /\ PendingConfirm)
           => /\ Ids(announcements) \ Ids(announcements') \subseteq {pendingDelete}
              /\ Len(announcements') >= Len(announcements) - 1
              /\ pendingDelete' = NoId /\ ~confirmOpen'
    ]_vars

\* of two entries the one published last was removed, the first one is left
C8_Witness ==
  /\ Idle
  /\ toast.message = "Announcement deleted."
  /\ now = 3
  /\ Ids(announcements) = {1}

\* C9: typing into the scratch draft never changes the stored list; cancel
\* leaves the stored list unchanged, resets the draft and clears the edit
\* focus, whatever the draft holds.
C9_ScratchDraft ==
  [][ /\ \A v \in EditTitles : setEditTitle(v) => announcements' = announcements
      /\ \A v \in EditMessages :
           setEditMessage(v) => announcements' = announcements
      /\ cancelEdit
           => (announcements' = announcements /\ editDraft' = EmptyDraft
               /\ editingId' = NoId)
    ]_vars

\* the entry in Editing has a scratch draft that differs from its stored
\* title and message
C9_Witness ==
  /\ editingId # NoId
  /\ editDraft.title \in EditTitles
  /\ editDraft.message \in EditMessages
  /\ \E i \in 1..Len(announcements) :
       /\ announcements[i].id = editingId
       /\ announcements[i].title # Trim(editDraft.title)
       /\ announcements[i].message # Trim(editDraft.message)

\* C10: at most one stored entry is the edit focus; startEdit by an admin on
\* an entry moves the edit focus to it, whatever was being edited, sets the
\* scratch draft to its stored title and message and leaves the list
\* unchanged.
C10_SingleEditFocus ==
  [][ /\ Cardinality({i \in 1..Len(announcements) :
                        announcements[i].id = editingId}) <= 1
      /\ \A a \in EditArgs :
           (startEdit(a) /\ canManage /\ a # NoAnnouncement)
           => /\ editingId' = a.id
              /\ editDraft' = [title |-> a.title, message |-> a.message]
              /\ announcements' = announcements
    ]_vars

\* the edit focus is on the newer of two entries that differ in title, with
\* the scratch draft equal to its stored fields
C10_Witness ==
  /\ Len(announcements) = 2
  /\ editingId = announcements[1].id
  /\ editDraft = [title |-> announcements[1].title,
                  message |-> announcements[1].message]
  /\ announcements[1].title # announcements[2].title
  /\ announcements[1].message # announcements[2].message

\* sequence of the ids of a list
IdSeq(list) == [i \in 1..Len(list) |-> list[i].id]

UniqueIds(list) == Cardinality(Ids(list)) = Len(list)

\* C11: no two announcements in the list have the same id, after any
\* sequence of publish, update and remove steps from the empty list, and an
\* entry keeps its id: a step leaves the ids as they are, puts one id that no
\* entry has in front of them, or takes one id out.
C11_UniqueStableIds ==
  [][ /\ UniqueIds(announcements)
      /\ UniqueIds(announcements')
      /\ \/ IdSeq(announcements') = IdSeq(announcements)
         \/ /\ Len(announcements') = Len(announcements) + 1
            /\ Tail(IdSeq(announcements')) = IdSeq(announcements)
            /\ Head(IdSeq(announcements')) \notin Ids(announcements)
         \/ \E k \in 1..Len(announcements) :
              IdSeq(announcements') = WithoutAt(IdSeq(announcements), k)
    ]_vars

\* two entries published one after the other, the second then updated
C11_Witness ==
  /\ Len(announcements) = 2
  /\ announcements[1].id # announcements[2].id
  /\ announcements[1].title = <<"x", "y", "z">>
  /\ toast.message = "Announcement updated."
  /\ pendingDelete = announcements[1].id

\* C12: after any sequence of publish, update and remove steps from the
\* empty list every stored announcement has a trimmed title of length >= 3
\* and a trimmed message of length >= 5.
C12_StoredMinLengths ==
  \A i \in 1..Len(announcements) :
    /\ Len(Trim(announcements[i].title)) >= MinTitleLen
    /\ Len(Trim(announcements[i].message)) >= MinMessageLen

\* the list holds a published entry and an entry updated from the edit
\* inputs, and drafts that were rejected as too short are still in the forms
C12_Witness ==
  /\ Len(announcements) = 2
  /\ announcements[2].title = <<"x", "y", "z">>
  /\ announcements[2].message = <<"w", "o", "r", "l", "d">>
  /\ toast.message = "Message must be at least 5 characters."
  /\ editingId # NoId
  /\ Len(Trim(editDraft.message)) < MinMessageLen

----------------------------------------------------------------------------
(* The displayed list *)

\* the filter text as the filter uses it
FilterText == ToLowerCase(Trim(searchDebounced))

\* the smaller of two numbers
Least(x, y) == IF x < y THEN x ELSE y

\* the entries of list from place first on, count of them at most
Stretch(list, first, count) ==
  [i \in 1..Least(count, Len(list) - first + 1) |-> list[first + i - 1]]

\* the requested page p brought into 1..last
InRange(p, last) == IF p < 1 THEN 1 ELSE IF p > last THEN last ELSE p

\* C13: with page size 5, pageCount = max(1, ceil(totalCount / 5)); for
\* every requested page, below 1 and above the last page included, the
\* reported page is the requested one clamped to 1..pageCount and the items
\* are the slice of the filtered and sorted list for the clamped page; a
\* filter that matches nothing gives no items, totalCount 0, pageCount 1 and
\* page 1; 7 entries by date descending give the 2 oldest on page 2 of 2.
C13_Pagination ==
  LET total == Len(filteredSorted)
  IN /\ pageCount >= 1
     /\ 5 * (pageCount - 1) < total \/ pageCount = 1
     /\ total <= 5 * pageCount
     /\ \A p \in -1..(pageCount + 2) :
          /\ clamp(p, 1, pageCount) = InRange(p, pageCount)
          /\ PageItemsOf(filteredSorted, clamp(p, 1, pageCount))
               = Stretch(filteredSorted, 5 * (InRange(p, pageCount) - 1) + 1, 5)
     /\ pageSafe = InRange(page, pageCount)
     /\ pageItems = Stretch(filteredSorted, 5 * (pageSafe - 1) + 1, 5)
     /\ (\A i \in 1..Len(announcements) : ~Matches(announcements[i], FilterText))
          => /\ pageItems = << >>
             /\ total = 0
             /\ pageCount = 1
             /\ pageSafe = 1
     /\ (Len(announcements) = 7 /\ FilterText = EmptyText
           /\ sortKey = "date" /\ sortDir = "desc")
          => /\ pageCount = 2
             /\ Len(PageItemsOf(filteredSorted, 2)) = 2
             /\ \A i \in 1..Len(announcements) :
                  \/ announcements[i] \in {PageItemsOf(filteredSorted, 2)[k] : k \in 1..2}
                  \/ \A k \in 1..2 :
                       PageItemsOf(filteredSorted, 2)[k].date < announcements[i].date

\* page 2 of 7 entries by date descending is shown
C13_Witness ==
  /\ Len(announcements) = 7
  /\ FilterText = EmptyText
  /\ sortKey = "date"
  /\ sortDir = "desc"
  /\ page = 2
  /\ Len(pageItems) = 2
  /\ pageItems[2].date = 1

\* c and d are the same letter, in whatever case, or the same character
SameLetter(c, d) ==
  \/ c = d
  \/ \E i \in 1..Len(UpperCase) : {c, d} = {UpperCase[i], LowerCase[i]}

\* text holds the characters of part in a row, case left aside
Contains(text, part) ==
  \E k \in 0..(Len(text) - Len(part)) :
     \A i \in 1..Len(part) : SameLetter(text[k + i], part[i])

\* a field of an entry, the empty text when the entry does not have it
FieldText(x) == IF x = Missing THEN << >> ELSE x

\* the entry is one the filter text asks for
Wanted(a, text) ==
  \/ Trim(text) = << >>
  \/ Contains(FieldText(a.title), Trim(text))
  \/ Contains(FieldText(a.message), Trim(text))
  \/ Contains(FieldText(a.author), Trim(text))

Shown == {filteredSorted[i] : i \in 1..Len(filteredSorted)}

\* C14: the filtered result holds exactly the announcements for which the
\* trimmed filter text is empty or occurs, case left aside, in the title,
\* the message or the author, a missing field counting as the empty text;
\* a blank filter returns every announcement.
C14_Filter ==
  /\ \A i \in 1..Len(announcements) :
       announcements[i] \in Shown <=> Wanted(announcements[i], searchDebounced)
  /\ Shown \subseteq {announcements[i] : i \in 1..Len(announcements)}
  /\ Cardinality(Shown) = Len(filteredSorted)
  /\ Trim(searchDebounced) = << >> => Len(filteredSorted) = Len(announcements)

\* the filter " aB " has kept an entry for its message alone and dropped an
\* entry without title, message and author
C14_Witness ==
  /\ searchDebounced = <<" ", "a", "B", " ">>
  /\ \E i \in 1..Len(announcements) :
       /\ announcements[i].message = <<"x", "a", "B", "y">>
       /\ announcements[i] \in Shown
  /\ \E i \in 1..Len(announcements) :
       /\ announcements[i].title = Missing
       /\ announcements[i].author = Missing
       /\ announcements[i] \notin Shown

\* the items a query returns
Items(list, text, key, dir, p) ==
  LET found == filteredSortedMemo(list, text, key, dir).list
  IN PageItemsOf(found, clamp(p, 1, PageCountOf(Len(found))))

\* C15: a change of the search text, the sort key, the sort direction or
\* the page leaves the stored announcement list as it is, entries and order,
\* in memory and in the store; a query with the parameters of the query
\* before it on the unchanged list returns the same items.
C15_QueryPure ==
  [][ /\ announcements' = announcements
      /\ storage' = storage
      /\ (/\ searchDebounced' = searchDebounced
          /\ sortKey' = sortKey
          /\ sortDir' = sortDir
          /\ page' = page)
         => Items(announcements', searchDebounced', sortKey', sortDir', page')
              = Items(announcements, searchDebounced, sortKey, sortDir, page) ]_vars

\* the list is shown by title ascending in an order that is not the stored
\* one, the store holding the stored order
C15_Witness ==
  /\ sortKey = "title"
  /\ sortDir = "asc"
  /\ Len(announcements) >= 2
  /\ Len(filteredSorted) = Len(announcements)
  /\ filteredSorted # announcements
  /\ storage = JSONStringify(announcements)
  /\ search # searchDebounced

\* the time stamp an entry is to be sorted by: the epoch for a date that is
\* missing or cannot be parsed
DateKey(a) == IF a.date \in {MissingDate, UnparsableDate} THEN 0 ELSE a.date

\* C16: sorted by date, the list is in the order of the time stamps, a
\* missing or unparsable date counting as the epoch: such an entry comes
\* before every entry with a later date in ascending order and after them in
\* descending order, and the other entries are in time stamp order.
C16_DateSort ==
  sortKey = "date" =>
    \A i, j \in 1..Len(filteredSorted) :
       i < j => IF sortDir = "asc"
                THEN DateKey(filteredSorted[i]) <= DateKey(filteredSorted[j])
                ELSE DateKey(filteredSorted[i]) >= DateKey(filteredSorted[j])

\* place of a character in the alphabet, the blank before the letters
Place(c) ==
  IF c = " " THEN 0
  ELSE CHOOSE i \in 1..Len(LowerCase) : c \in {UpperCase[i], LowerCase[i]}

\* s comes before t in the dictionary
ComesBefore(s, t) ==
  \E k \in 0..Least(Len(s), Len(t)) :
     /\ \A i \in 1..k : Place(s[i]) = Place(t[i])
     /\ \/ k = Len(s) /\ k < Len(t)
        \/ k < Len(s) /\ k < Len(t) /\ Place(s[k + 1]) < Place(t[k + 1])

\* the text an entry is sorted by
SortText(a) == IF sortKey = "title" THEN FieldText(a.title) ELSE FieldText(a.author)

\* place of an entry in the stored list
StoredPlace(a) == CHOOSE i \in 1..Len(announcements) : announcements[i] = a

\* C17: sorted by title or by author, the items are in dictionary order of
\* the key for asc and in the reverse of it for desc, whatever the stored
\* order; entries with the same key keep their stored order in both
\* directions; "Exam Reminder", "Field Trip", "Grade Policy", published in
\* that order, come back in that order by title ascending.
C17_TextSort ==
  sortKey \in {"title", "author"} =>
    /\ \A i, j \in 1..Len(filteredSorted) :
         i < j =>
           /\ sortDir = "asc" =>
                ~ComesBefore(SortText(filteredSorted[j]), SortText(filteredSorted[i]))
           /\ sortDir = "desc" =>
                ~ComesBefore(SortText(filteredSorted[i]), SortText(filteredSorted[j]))
           /\ SortText(filteredSorted[i]) = SortText(filteredSorted[j]) =>
                StoredPlace(filteredSorted[i]) < StoredPlace(filteredSorted[j])
    /\ (/\ announcements = ExamFieldGrade
        /\ sortKey = "title"
        /\ sortDir = "asc"
        /\ FilterText = EmptyText)
       => filteredSorted = <<ExamFieldGrade[3], ExamFieldGrade[2], ExamFieldGrade[1]>>

\* by title descending, two entries with the title "Ab" follow the entry
\* "c" in their stored order
C17_Witness ==
  /\ sortKey = "title"
  /\ sortDir = "desc"
  /\ IdSeq(announcements) = <<4, 1, 2>>
  /\ IdSeq(filteredSorted) = <<2, 4, 1>>
  /\ announcements[1].title = announcements[2].title

----------------------------------------------------------------------------
(* The debounced search text *)

\* C20: at most one debounce timer is pending, and it holds the current raw
\* value; a change of the raw value takes effect at once, leaves the
\* effective filter alone, cancels the pending timer and sets a new one for
\* the new value; the effective filter changes only when a timer fires, and
\* then to the current raw value, so never to a value typed over before.
C20_DebounceSafety ==
  [][ /\ Cardinality(timers) <= 1
      /\ Cardinality(timers') <= 1
      /\ timers' \subseteq {search'}
      /\ search' # search =>
            /\ timers' = {search'}
            /\ searchDebounced' = searchDebounced
      /\ searchDebounced' # searchDebounced =>
            /\ searchDebounced' = search
            /\ search' = search
            /\ timers = {search}
            /\ timers' = {} ]_vars

\* the filter " aB " is in effect, the text was typed over since and the
\* timer for the new text is pending
C20_Witness ==
  /\ searchDebounced = <<" ", "a", "B", " ">>
  /\ search = <<"n", "o", "m", "a", "t", "c", "h">>
  /\ timers = {search}

----------------------------------------------------------------------------
(* The list and the store *)

\* the list after the step is the list before it with an entry put in
\* front, with the texts of its entries changed, or with an entry taken out
FromMemory ==
  \/ Len(announcements') = Len(announcements) + 1
       /\ Tail(announcements') = announcements
  \/ IdSeq(announcements') = IdSeq(announcements)
  \/ \E k \in 1..Len(announcements) : announcements' = WithoutAt(announcements, k)

\* C18: after a publish, an update or a removal that changed the list, and
\* with a save that does not fail, the value saved under the key is the list
\* in memory; the list in memory is seeded from the store at start-up only:
\* a later change of the stored item does not change it, and every change of
\* it starts from the list in memory.
C18_SavedEqualsMemory ==
  [][ /\ (announcements' # announcements /\ storageOk)
           => storage' = JSONStringify(announcements')
      /\ (toast' # toast /\ storageOk
            /\ toast'.message \in {"Announcement published.", "Announcement updated.",
                                  "Announcement deleted."})
           => storage' = JSONStringify(announcements')
      /\ announcements' # announcements => FromMemory
      /\ (storage' # storage /\ storage' # JSONStringify(announcements'))
           => announcements' = announcements ]_vars

\* the store held a text that is not JSON at start-up; an entry was published
\* and updated, and the saved value is the list in memory
C18_Witness ==
  /\ storageOk
  /\ Len(announcements) = 1
  /\ announcements[1].title = <<"x", "y", "z">>
  /\ toast.message = "Announcement updated."
  /\ storage = JSONStringify(announcements)

\* what load must not return the default for
Decodable(item) == item.kind = "json"

\* C19: load returns the given default when the key is absent, unreadable or
\* not decodable, and the stored value otherwise; a save that fails changes
\* neither the stored item nor the outcome of the operation: the list in
\* memory changes as it does with a working store, the message is the one
\* of the success, and the next change starts from the list in memory.
C19_StoreFailuresSwallowed ==
  [][ /\ \A item \in StoredItems \cup {storage}, fallback \in {<< >>, announcements} :
           storageGet(item, fallback)
             = IF Decodable(item) THEN item.value ELSE fallback
      /\ ~storageOk =>
           /\ storage' = storage \/ storage' = AbsentItem
           /\ toast'.type \in {"info", "warn", "none"}
           /\ announcements' # announcements =>
                /\ FromMemory
                /\ toast'.message \in {"Announcement published.", "Announcement updated.",
                                       "Announcement deleted."}
           /\ (toast' # toast /\ toast'.message = "Announcement published.")
                => /\ Len(announcements') = Len(announcements) + 1
                   /\ Head(announcements').title = Trim(announcementData.title)
           /\ (toast' # toast /\ toast'.message = "Announcement deleted.")
                => Len(announcements') = Len(announcements) - 1 ]_vars

\* the store held a text that is not JSON and every save has failed: two
\* entries were published and the newer one was removed again
C19_Witness ==
  /\ ~storageOk
  /\ storage = GarbageItem
  /\ IdSeq(announcements) = <<1>>
  /\ now = 3
  /\ toast.message = "Announcement deleted."

\* C21: once the raw search value stops changing, the effective filter
\* becomes equal to it, the timer being run; being equal, it stays equal
\* as long as the raw value does not change.
C21_DebounceLiveness ==
  /\ \A v \in SearchTexts :
       (search = v) ~> (searchDebounced = v \/ search # v)
  /\ [][(searchDebounced = search /\ search' = search)
          => searchDebounced' = search']_vars

\* the text "nomatch" was typed, its timer has fired and the filter is the
\* text typed
C21_Witness ==
  /\ search = <<"n", "o", "m", "a", "t", "c", "h">>
  /\ searchDebounced = search
  /\ timers = {}

----------------------------------------------------------------------------
(* Rejected updates, stored order, edit focus *)

\* C24: a saveEdit by an admin with a draft whose trimmed title is shorter
\* than 3 or whose trimmed message is shorter than 5 changes nothing but the
\* notification: the stored list and the saved item stay, the same entry
\* stays in Editing and the scratch draft keeps its content.
C24_SaveEditInvalid ==
  [][ ((\E id \in IdSpace : saveEdit(id)) /\ canManage /\ ~ValidDraft(editDraft))
      => /\ announcements' = announcements
         /\ storage' = storage
         /\ editingId' = editingId
         /\ editDraft' = editDraft
         /\ UNCHANGED <<user, announcementData, confirmOpen, pendingDelete>>
         /\ toast'.type = "warn"
         /\ toast'.message =
              (IF Len(Trim(editDraft.title)) < MinTitleLen
               THEN "Title must be at least 3 characters."
               ELSE "Message must be at least 5 characters.") ]_vars

\* a draft with the title "x " was rejected; the entry is still in Editing
\* with that draft and has the title it was published with
C24_Witness ==
  /\ canManage
  /\ toast.message = "Title must be at least 3 characters."
  /\ Len(announcements) = 1
  /\ editingId = announcements[1].id
  /\ editDraft.title = <<"x", " ">>
  /\ announcements[1].title = <<"a", "b", "c">>
  /\ announcementData = EmptyDraft

\* C29: editingId is null or the id of an announcement in the list: an
\* entry is not deleted while it is the edit focus without the edit focus
\* being cleared.
C29_EditFocusInList ==
  editingId = NoId \/ editingId \in Ids(announcements)

\* the dates never go up along the list
NewestFirst(list) ==
  \A i, j \in 1..Len(list) : i < j => list[i].date >= list[j].date

\* C25: the stored list is newest first: a publish puts the entry at the
\* head, an update and a removal keep the order of the entries that remain;
\* so with an empty filter, sort key date and direction desc, and time
\* stamps that do not decrease from publish to publish (equal ones
\* included), the displayed order is the stored order and the first item of
\* page 1 is the entry published last.
C25_NewestFirst ==
  /\ [][announcements' # announcements => FromMemory]_vars
  /\ [][(Len(announcements') = Len(announcements) + 1)
          => /\ Head(announcements').id = uid
             /\ Head(announcements').id \notin Ids(announcements)]_vars
  /\ [](NewestFirst(announcements)
        /\ ((FilterText = EmptyText /\ sortKey = "date" /\ sortDir = "desc")
             => /\ filteredSorted = announcements
                /\ announcements # << >> =>
                     /\ pageSafe = 1
                     /\ pageItems[1] = announcements[1]
                     /\ \A i \in 1..Len(announcements) :
                          announcements[i].id <= announcements[1].id))

\* two entries with the same time stamp are shown in their stored order, the
\* one published last first
C25_Witness ==
  /\ Len(announcements) = 2
  /\ announcements[1].date = announcements[2].date
  /\ announcements[1].id > announcements[2].id
  /\ pageItems = announcements
  /\ toast.message = "Announcement published."

\* C30: after any sequence of publish, delete, search change and page
\* actions the page state lies in 1..pageCount, the displayed page is not
\* empty while the filtered list is not empty (deleting the only entry of
\* the last page shows the new last page), and the pages 1..pageCount
\* together are the filtered list, every entry once
RECURSIVE PagesUpTo(_, _)
PagesUpTo(list, n) ==
  IF n = 0 THEN << >> ELSE PagesUpTo(list, n - 1) \o PageItemsOf(list, n)

C30_PageInRange ==
  /\ [](/\ page \in 1..pageCount
        /\ filteredSorted # << >> => pageItems # << >>
        /\ PagesUpTo(filteredSorted, pageCount) = filteredSorted)
  /\ [][(/\ Len(announcements') < Len(announcements)
          /\ page > 1
          /\ page = pageCount
          /\ Len(pageItems) = 1
          /\ pageItems[1].id = pendingDelete)
         => page' = page - 1]_vars

C30_Witness ==
  /\ announcements = SubSeq(Earlier(pageSize + 1), 1, pageSize)
  /\ toast.message = "Announcement deleted."
  /\ page = 1
  /\ Len(pageItems) = pageSize

\* C28: whenever a user with a role other than admin is logged in, the
\* active tab is none of analytics, announce, settings, after any sequence
\* of login, tab selection and logout
C28_AdminTabsAdminOnly ==
  (Shell /\ RoleOf(user) # "admin") => tab \notin {"analytics", "announce", "settings"}

\* C23: the timer of a toast, when it fires, removes exactly that toast if
\* it is still on screen and leaves every other toast as it is, in whatever
\* order the timers fire and also after the toast was dismissed by hand; a
\* toast on screen has its timer pending, so once every pending timer has
\* fired the list is empty
C23_ToastTimers ==
  /\ [](Ids(toasts) \subseteq toastTimers /\ UniqueIds(toasts))
  /\ [](toastTimers = {} => toasts = << >>)
  /\ [][\A id \in toastTimers :
          (toastTimers' = toastTimers \ {id})
            => IF id \in Ids(toasts)
               THEN \E k \in DOMAIN toasts :
                      toasts[k].id = id /\ toasts' = WithoutAt(toasts, k)
               ELSE toasts' = toasts]_vars

\* the timer of the second toast has fired before the timer of the first,
\* which was dismissed by hand
C23_Witness ==
  /\ toasts = << >>
  /\ toastTimers = {1}
  /\ now = 3

\* number of messages of a role in the conversation
Count(role) == Cardinality({k \in DOMAIN msgs : msgs[k].role = role})

\* C22: every accepted send appends the user's message; whether the proxy
\* returns a reply, returns nothing or fails, the send eventually appends
\* exactly one assistant message, the reply or the literal fallback text,
\* and sets loading to false; no failure is shown as an error
C22_SendAlwaysAnswered ==
  /\ [][Len(calls') > Len(calls)
         => /\ Trim(input) # EmptyText
            /\ Len(msgs') - Len(msgs) = Len(calls') - Len(calls)
            /\ SubSeq(msgs', 1, Len(msgs)) = msgs
            /\ \A k \in (Len(msgs) + 1)..Len(msgs') :
                 msgs'[k] = [role |-> "user", content |-> Trim(input)]]_vars
  /\ [][Len(calls') < Len(calls)
         => \E i \in DOMAIN calls :
              /\ calls' = WithoutAt(calls, i)
              /\ msgs' = Append(msgs,
                   [role |-> "assistant",
                    content |-> IF calls[i].at = "setTimeout"
                                THEN Fallback(calls[i].text) ELSE ReplyText])
              /\ loading' = FALSE]_vars
  /\ [](Count("assistant") + Len(calls) = Count("user"))
  /\ [](/\ toast.type # "error"
        /\ \A k \in DOMAIN msgs : msgs[k].content # <<"Error. Please retry.">>)
  /\ (calls # << >>) ~> (calls = << >> /\ Count("assistant") = Count("user"))
  /\ loading ~> ~loading

\* a send whose proxy call failed or returned nothing is answered with the
\* fallback text, a second send with the reply
C22_Witness ==
  /\ msgs = << [role |-> "user", content |-> <<"h", "i">>],
               [role |-> "assistant", content |-> Fallback(<<"h", "i">>)],
               [role |-> "user", content |-> <<"h", "i">>],
               [role |-> "assistant", content |-> ReplyText] >>
  /\ calls = << >>
  /\ ~loading

\* C26: at most one chat request is in flight at any time, and one user
\* action appends at most one user message and starts at most one proxy
\* call: a send invoked while loading, or by the second handler of the same
\* key press, does nothing
C26_OneRequestInFlight ==
  /\ [](Len(calls) <= 1)
  /\ [][Len(calls') <= Len(calls) + 1 /\ Len(msgs') <= Len(msgs) + 1]_vars

\* C27: logout clears the conversation, and from a logout until the next
\* send the message list stays empty, also when a request started before
\* the logout completes after it: an empty conversation gets its first
\* message from a send only
C27_LogoutClearsConversation ==
  /\ [][(user # NoUser /\ user' = NoUser) => msgs' = << >>]_vars
  /\ [][(msgs = << >> /\ msgs' # << >>)
         => (Len(calls') > Len(calls) /\ msgs'[1].role = "user")]_vars

====
